---- MODULE Spec2Model ----
(***************************************************************************)
(* lockbox: a single-file password store (src/src/main.rs).                *)
(*                                                                         *)
(* One invocation of the program is  load -> one command -> save -> exit.  *)
(* The model covers Store::load, Store::save, encrypt_store, decrypt_store *)
(* and the three commands of main, over a small file system (directory,    *)
(* inodes, open handles, page cache versus durable data).                  *)
(*                                                                         *)
(* Bytes are modelled as sequences of JSON tokens, so that a file can hold *)
(* a prefix of a serialization (a partial write) and a parser can reject   *)
(* it. The orion primitives are modelled symbolically: a derived key is    *)
(* the tuple of what it was derived from, a sealed blob carries the key it *)
(* was sealed under and opens only under that key and only if intact.      *)
(***************************************************************************)
EXTENDS Integers, Sequences, FiniteSets, TLC

(***************************************************************************)
(* Bounds of the model                                                     *)
(***************************************************************************)
\* invocations of the program in one behaviour
MaxRuns == 2
\* invocations in one behaviour that starts without a file and keeps one passphrase
MaxFreshRuns == 4
\* records of the largest collection saved and loaded back
MaxItems == 2

(***************************************************************************)
(* Program constants                                                       *)
(***************************************************************************)
\* next_id of the collection load falls back to
FirstId == 1
\* encrypt_store: let iters = 3
DefaultIters == 3
\* encrypt_store: let memory_kib = 1 << 16
DefaultMemoryKib == 65536
\* orion::kdf::derive_key rejects fewer iterations / less memory than these
MinIters == 3
MinMemoryKib == 8

\* the passphrases prompt_password can return
PassA == "correct123"
PassB == "wrong456"
NoPass == ""
Passphrases == {PassA, PassB, NoPass}

\* Salt::default() draws a random salt; two values stand for the draw
SaltBytes(s) == [salt |-> s]
Salts == {SaltBytes("s1"), SaltBytes("s2")}

Services == {"github", "gitlab"}
Usernames == {"alice"}
Secrets == {"p@ss1"}

(***************************************************************************)
(* Results                                                                 *)
(***************************************************************************)
Ok(v) == [ok |-> TRUE, val |-> v]
Err(e) == [ok |-> FALSE, err |-> e]

(***************************************************************************)
(* The collection: struct Vault, struct Store                              *)
(***************************************************************************)
Vault(id, service, username, password) ==
    [id |-> id, service |-> service, username |-> username, password |-> password]

Store(next_id, vault_items) == [next_id |-> next_id, vault_items |-> vault_items]

\* a default collection whose ids start at 0
EmptyStoreFromZero == Store(0, <<>>)

\* the literal  Store { next_id: 1, vault_items: vec![] }  of Store::load
EmptyStore == Store(FirstId, <<>>)

(***************************************************************************)
(* JSON as tokens                                                          *)
(***************************************************************************)
\* a token: a punctuation mark, or a key with its value (a number, a string)
Tok(name, val) == [name |-> name, val |-> val]
Nil == [nil |-> TRUE]
Num(n) == [num |-> n]
LBrace == Tok("{", Nil)
RBrace == Tok("}", Nil)
LBracket == Tok("[", Nil)
RBracket == Tok("]", Nil)
\* a byte range of a file that was never written (a hole reads as zeros)
Hole == Tok("\\0", Nil)
\* bytes that are no JSON at all
Junk == Tok("junk", Nil)

Prefixes(s) == {SubSeq(s, 1, k) : k \in 0..Len(s)}

\* positions of the tokens of that name
Positions(bytes, name) == {i \in 1..Len(bytes) : bytes[i].name = name}

\* the one field of that name of a JSON object
FieldOf(bytes, name) == bytes[CHOOSE i \in Positions(bytes, name) : TRUE].val

\* serde_json::to_vec(store): {"next_id":n,"vault_items":[{...},...]}
SerStore(store) ==
    <<LBrace, Tok("next_id", Num(store.next_id)), Tok("vault_items", Nil), LBracket>>
    \o [i \in 1..Len(store.vault_items) |-> Tok("item", store.vault_items[i])]
    \o <<RBracket, RBrace>>

\* serde_json::from_slice::<Store> / from_reader::<_, Store>
ParseStore(bytes) ==
    LET n == Len(bytes) IN
    IF /\ n >= 6
       /\ bytes[1] = LBrace
       /\ bytes[2].name = "next_id"
       /\ bytes[3].name = "vault_items"
       /\ bytes[4] = LBracket
       /\ \A i \in 5..(n - 2) : bytes[i].name = "item"
       /\ bytes[n - 1] = RBracket
       /\ bytes[n] = RBrace
    THEN Ok(Store(bytes[2].val.num, [i \in 1..(n - 6) |-> bytes[i + 4].val]))
    ELSE Err("parse_store")

(***************************************************************************)
(* base64                                                                  *)
(***************************************************************************)
B64Encode(raw) == [b64 |-> raw]
B64Decode(text) ==
    IF "b64" \in DOMAIN text THEN Ok(text.b64) ELSE Err("base64")
\* a string that is no base64
NotB64 == [bad |-> TRUE]

(***************************************************************************)
(* orion: kdf::Password, kdf::derive_key, aead::seal, aead::open           *)
(***************************************************************************)
\* Password::from_slice: an empty slice is rejected
PasswordFromSlice(master) ==
    IF master = NoPass THEN Err("password") ELSE Ok(master)

\* kdf::derive_key: deterministic in (password, salt, iterations, memory)
DeriveKey(password, salt, iters, memory_kib) ==
    IF iters < MinIters \/ memory_kib < MinMemoryKib
    THEN Err("derive_key")
    ELSE Ok(<<password, salt, iters, memory_kib>>)

\* aead::seal: the blob embeds its nonce and its tag
Seal(key, plaintext) == [key |-> key, pt |-> plaintext, intact |-> TRUE]

\* aead::open: fails closed on a wrong key and on a modified blob
Open(key, blob) ==
    IF blob.intact /\ blob.key = key THEN Ok(blob.pt) ELSE Err("decryption_failed")

\* a blob with one byte flipped
Tamper(blob) == [blob EXCEPT !.intact = FALSE]

(***************************************************************************)
(* struct EncryptedFile and its JSON                                       *)
(***************************************************************************)
EncryptedFile(salt_b64, kdf_iterations, kdf_memory_kib, blob_b64) ==
    [salt_b64 |-> salt_b64, kdf_iterations |-> kdf_iterations,
     kdf_memory_kib |-> kdf_memory_kib, blob_b64 |-> blob_b64]

\* the JSON of the collection the container seals, in place of the container's
SerPlaintextOf(enc) == B64Decode(enc.blob_b64).val.pt

\* serde_json::to_vec_pretty(&enc)
SerEncryptedFile(enc) ==
    <<LBrace, Tok("salt_b64", enc.salt_b64), Tok("kdf_iterations", Num(enc.kdf_iterations)),
      Tok("kdf_memory_kib", Num(enc.kdf_memory_kib)), Tok("blob_b64", enc.blob_b64), RBrace>>

\* a complete JSON value whose top level is an object: balanced, nothing unwritten
IsJsonObject(bytes) ==
    LET n == Len(bytes) IN
    /\ n >= 2
    /\ bytes[1] = LBrace
    /\ bytes[n] = RBrace
    /\ \A i \in 2..(n - 1) : bytes[i].name \notin {"{", "}", "\\0", "junk"}
    /\ Cardinality(Positions(bytes, "[")) = Cardinality(Positions(bytes, "]"))

\* serde_json::from_reader::<_, EncryptedFile>: every field is required,
\* fields the struct does not have are skipped
ParseEncryptedFile(bytes) ==
    IF /\ IsJsonObject(bytes)
       /\ \A f \in {"salt_b64", "kdf_iterations", "kdf_memory_kib", "blob_b64"} :
              Cardinality(Positions(bytes, f)) = 1
    THEN Ok(EncryptedFile(FieldOf(bytes, "salt_b64"), FieldOf(bytes, "kdf_iterations").num,
                          FieldOf(bytes, "kdf_memory_kib").num, FieldOf(bytes, "blob_b64")))
    ELSE Err("parse_container")

(***************************************************************************)
(* encrypt_store, decrypt_store                                            *)
(***************************************************************************)
\* (an encrypt_store that stores another salt than the one the key came from)
EncryptStoreOtherSalt(store, master, salt) ==
    LET password == PasswordFromSlice(master) IN
    IF ~password.ok THEN password
    ELSE LET dk == DeriveKey(password.val, salt, DefaultIters, DefaultMemoryKib) IN
         IF ~dk.ok THEN dk
         ELSE Ok(EncryptedFile(B64Encode(CHOOSE other \in Salts : other # salt),
                               DefaultIters, DefaultMemoryKib,
                               B64Encode(Seal(dk.val, SerStore(store)))))

\* encrypt_store with the salt Salt::default() drew
EncryptStore(store, master, salt) ==
    LET password == PasswordFromSlice(master) IN
    IF ~password.ok THEN password
    ELSE LET dk == DeriveKey(password.val, salt, DefaultIters, DefaultMemoryKib) IN
         IF ~dk.ok THEN dk
         ELSE Ok(EncryptedFile(B64Encode(salt), DefaultIters, DefaultMemoryKib,
                               B64Encode(Seal(dk.val, SerStore(store)))))

\* decrypt_store deriving the key with the cost constants of encrypt_store
DecryptStoreDefaultCost(enc, master) ==
    LET salt == B64Decode(enc.salt_b64)
        blob == B64Decode(enc.blob_b64)
    IN
    IF ~salt.ok THEN salt
    ELSE IF ~blob.ok THEN blob
    ELSE LET password == PasswordFromSlice(master) IN
         IF ~password.ok THEN password
         ELSE LET dk == DeriveKey(password.val, salt.val,
                                  DefaultIters, DefaultMemoryKib) IN
              IF ~dk.ok THEN dk
              ELSE LET plaintext == Open(dk.val, blob.val) IN
                   IF ~plaintext.ok THEN plaintext
                   ELSE ParseStore(plaintext.val)

DecryptStore(enc, master) ==
    LET salt == B64Decode(enc.salt_b64)
        blob == B64Decode(enc.blob_b64)
    IN
    IF ~salt.ok THEN salt
    ELSE IF ~blob.ok THEN blob
    ELSE LET password == PasswordFromSlice(master) IN
         IF ~password.ok THEN password
         ELSE LET dk == DeriveKey(password.val, salt.val,
                                  enc.kdf_iterations, enc.kdf_memory_kib) IN
              IF ~dk.ok THEN dk
              ELSE LET plaintext == Open(dk.val, blob.val) IN
                   IF ~plaintext.ok THEN plaintext
                   ELSE ParseStore(plaintext.val)

(***************************************************************************)
(* The file system                                                         *)
(***************************************************************************)
\* cli.db.unwrap_or_else(|| PathBuf::from("db.json"))
DbPath == "db.json"
\* (a save that writes the destination in place)
TmpPathInPlace == "db.json"
\* path.with_extension("json.tmp")
TmpPath == "db.json.tmp"
Paths == {DbPath, TmpPath}

Inodes == {"i1", "i2", "i3", "i4"}
NoInode == "none"

\* the invocations that can run at the same time
Procs == {"p1", "p2"}

VARIABLES
    dir,      \* directory: path -> inode or NoInode
    inode,    \* inode -> the bytes a read returns (page cache)
    synced,   \* inode -> length of the prefix of its bytes that is on durable storage
    proc,     \* invocation -> its registers
    runs,     \* invocations started so far
    issued,   \* ids handed out by add, in order
    last      \* how the latest invocation ended

vars == <<dir, inode, synced, proc, runs, issued, last>>

\* what a reader of the path sees
PathExists == dir[DbPath] # NoInode
PathBytes == IF PathExists THEN inode[dir[DbPath]] ELSE <<>>
PathState == [exists |-> PathExists, bytes |-> PathBytes]
TmpExists == dir[TmpPath] # NoInode
TmpBytes == IF TmpExists THEN inode[dir[TmpPath]] ELSE <<>>

NoCommand == [op |-> "none", id |-> 0, service |-> "", username |-> "", password |-> ""]
AddCommand(service, username, password) ==
    [op |-> "add", id |-> 0, service |-> service, username |-> username,
     password |-> password]
RemoveCommand(id) == [NoCommand EXCEPT !.op = "remove", !.id = id]
ListCommand == [NoCommand EXCEPT !.op = "list"]

RemoveIds == 1..3
Commands ==
    {AddCommand(s, u, w) : s \in Services, u \in Usernames, w \in Secrets}
    \cup {RemoveCommand(i) : i \in RemoveIds} \cup {ListCommand}

\* the registers of an invocation that is not running
Idle ==
    [pc |-> "idle", cmd |-> NoCommand, master |-> NoPass, store |-> EmptyStore,
     via |-> "none", rfd |-> NoInode, wfd |-> NoInode, off |-> 0, json |-> <<>>,
     result |-> "none", ioerr |-> "none", out |-> <<>>, pre |-> [exists |-> FALSE, bytes |-> <<>>]]

\* inodes that a directory entry or an open handle refers to
Referenced(d, pr) ==
    {d[n] : n \in Paths} \cup {pr[p].rfd : p \in Procs} \cup {pr[p].wfd : p \in Procs}

\* the kernel frees an inode once nothing refers to it
Collect(d, pr, ino) ==
    [i \in Inodes |-> IF i \in Referenced(d, pr) THEN ino[i] ELSE <<>>]
CollectSynced(d, pr, sy) ==
    [i \in Inodes |-> IF i \in Referenced(d, pr) THEN sy[i] ELSE 0]

FreeInode == CHOOSE i \in Inodes : i \notin Referenced(dir, proc)

Max(a, b) == IF a >= b THEN a ELSE b

\* write(2) of data at a file offset; a gap below the offset reads as zeros
WriteAt(content, off, data) ==
    [i \in 1..Max(Len(content), off + Len(data)) |->
        IF i > off /\ i <= off + Len(data) THEN data[i - off]
        ELSE IF i <= Len(content) THEN content[i]
        ELSE Hole]

(***************************************************************************)
(* The files an invocation can find at the path                            *)
(***************************************************************************)
Rec1 == Vault(1, "github", "alice", "p@ss1")
Rec2 == Vault(2, "gitlab", "alice", "p@ss1")
StoreOne == Store(2, <<Rec1>>)
StoreTwo == Store(3, <<Rec1, Rec2>>)
\* a legacy file written by hand: next_id not above its record's id
StoreOdd == Store(1, <<Rec2>>)

SealedFile(store, master, salt) == SerEncryptedFile(EncryptStore(store, master, salt).val)
TamperedFile(store, master, salt) ==
    LET enc == EncryptStore(store, master, salt).val IN
    SerEncryptedFile([enc EXCEPT !.blob_b64 = B64Encode(Tamper(B64Decode(enc.blob_b64).val))])

ContainerFiles == {SealedFile(StoreOne, PassA, SaltBytes("s1")), SealedFile(StoreTwo, PassA, SaltBytes("s1"))}
TamperedFiles == {TamperedFile(StoreTwo, PassA, SaltBytes("s1"))}
LegacyStores == {StoreOne, StoreTwo, StoreOdd}
LegacyFiles == {SerStore(st) : st \in LegacyStores}
GarbageFiles ==
    {<<>>, <<Junk>>, SubSeq(SealedFile(StoreOne, PassA, SaltBytes("s1")), 1, 3),
     SubSeq(SerStore(StoreTwo), 1, 5)}
ExistingFiles == ContainerFiles \cup TamperedFiles \cup LegacyFiles \cup GarbageFiles

\* the directory before the first invocation: one of the files, or none
InitDisk(files, absent) ==
    /\ \/ /\ absent
          /\ dir = [n \in Paths |-> NoInode]
          /\ inode = [i \in Inodes |-> <<>>]
       \/ \E f \in files :
             /\ dir = [n \in Paths |-> IF n = DbPath THEN "i1" ELSE NoInode]
             /\ inode = [i \in Inodes |-> IF i = "i1" THEN f ELSE <<>>]
    /\ synced = [i \in Inodes |-> Len(inode[i])]

InitFs(files, absent) ==
    /\ InitDisk(files, absent)
    /\ proc = [p \in Procs |-> Idle]
    /\ runs = 0
    /\ issued = <<>>
    /\ last = "none"

Init == InitFs(ExistingFiles, TRUE)

(***************************************************************************)
(* main: one invocation                                                    *)
(***************************************************************************)
Set(p, r) == proc' = [proc EXCEPT ![p] = r]

\* Cli::parse, prompt_password
Start(p, masters, limit) ==
    /\ proc[p].pc = "idle"
    /\ runs < limit
    /\ \E c \in Commands, m \in masters :
          Set(p, [Idle EXCEPT !.pc = "load_exists", !.cmd = c, !.master = m,
                              !.pre = PathState])
    /\ runs' = runs + 1
    /\ last' = "running"
    /\ UNCHANGED <<dir, inode, synced, issued>>

\* Store::load: if !path.exists() { return Store { next_id: 1, .. } }
LoadExists(p) ==
    /\ proc[p].pc = "load_exists"
    /\ IF PathExists
       THEN Set(p, [proc[p] EXCEPT !.pc = "load_open"])
       ELSE Set(p, [proc[p] EXCEPT !.pc = "dispatch", !.store = EmptyStore,
                                   !.via = "missing"])
    /\ UNCHANGED <<dir, inode, synced, runs, issued, last>>

\* Store::load: File::open(path) succeeds
LoadOpen(p) ==
    /\ proc[p].pc = "load_open"
    /\ PathExists
    /\ Set(p, [proc[p] EXCEPT !.pc = "load_container", !.rfd = dir[DbPath]])
    /\ UNCHANGED <<dir, inode, synced, runs, issued, last>>

\* Store::load: File::open(path) fails: Err(_) => return Store { next_id: 1, .. }
LoadOpenFail(p) ==
    /\ proc[p].pc = "load_open"
    /\ Set(p, [proc[p] EXCEPT !.pc = "dispatch", !.store = EmptyStore,
                              !.via = "open_error", !.ioerr = "open"])
    /\ UNCHANGED <<dir, inode, synced, runs, issued, last>>

\* (a load without the legacy arm: bytes that are no container give the default)
LoadContainerNoFallback(bytes, master) ==
    LET enc == ParseEncryptedFile(bytes) IN
    IF ~enc.ok THEN [next |-> "dispatch", store |-> EmptyStore, via |-> "garbage"]
    ELSE LET dec == DecryptStore(enc.val, master) IN
         IF dec.ok
         THEN [next |-> "dispatch", store |-> dec.val, via |-> "container"]
         ELSE [next |-> "dispatch", store |-> EmptyStore, via |-> dec.err]

\* what Store::load makes of the bytes read as an EncryptedFile
LoadContainerResult(bytes, master) ==
    LET enc == ParseEncryptedFile(bytes) IN
    IF ~enc.ok THEN [next |-> "load_reopen", store |-> EmptyStore, via |-> "none"]
    ELSE LET dec == DecryptStore(enc.val, master) IN
         IF dec.ok
         THEN [next |-> "dispatch", store |-> dec.val, via |-> "container"]
         ELSE [next |-> "dispatch", store |-> EmptyStore, via |-> dec.err]

\* Store::load: match serde_json::from_reader::<_, EncryptedFile>(reader)
LoadContainer(p) ==
    /\ proc[p].pc = "load_container"
    /\ LET r == LoadContainerResult(inode[proc[p].rfd], proc[p].master)
           np == [proc EXCEPT ![p] = [proc[p] EXCEPT !.pc = r.next, !.store = r.store,
                                                     !.via = r.via, !.rfd = NoInode]]
       IN /\ proc' = np
          /\ inode' = Collect(dir, np, inode)
          /\ synced' = CollectSynced(dir, np, synced)
    /\ UNCHANGED <<dir, runs, issued, last>>

\* Store::load, Err(_) arm: the second File::open(path) succeeds
LoadReopen(p) ==
    /\ proc[p].pc = "load_reopen"
    /\ PathExists
    /\ Set(p, [proc[p] EXCEPT !.pc = "load_bare", !.rfd = dir[DbPath]])
    /\ UNCHANGED <<dir, inode, synced, runs, issued, last>>

\* Store::load, Err(_) arm: the second File::open(path) fails
LoadReopenFail(p) ==
    /\ proc[p].pc = "load_reopen"
    /\ Set(p, [proc[p] EXCEPT !.pc = "dispatch", !.store = EmptyStore,
                              !.via = "open_error", !.ioerr = "open"])
    /\ UNCHANGED <<dir, inode, synced, runs, issued, last>>

\* what Store::load makes of the bytes read as a bare Store
LoadBareResult(bytes) ==
    LET st == ParseStore(bytes) IN
    IF st.ok THEN [store |-> st.val, via |-> "bare"]
    ELSE [store |-> EmptyStore, via |-> "garbage"]

\* Store::load: serde_json::from_reader(reader).unwrap_or(Store { next_id: 1, .. })
LoadBare(p) ==
    /\ proc[p].pc = "load_bare"
    /\ LET r == LoadBareResult(inode[proc[p].rfd])
           np == [proc EXCEPT ![p] = [proc[p] EXCEPT !.pc = "dispatch", !.store = r.store,
                                                     !.via = r.via, !.rfd = NoInode]]
       IN /\ proc' = np
          /\ inode' = Collect(dir, np, inode)
          /\ synced' = CollectSynced(dir, np, synced)
    /\ UNCHANGED <<dir, runs, issued, last>>

\* (an add that numbers the new record by the count of records)
AddRecordByCount(store, cmd) ==
    Store(Len(store.vault_items) + 2,
          Append(store.vault_items,
                 Vault(Len(store.vault_items) + 1, cmd.service, cmd.username,
                       cmd.password)))

\* Commands::Add: id = next_id; next_id += 1; push
AddRecord(store, cmd) ==
    Store(store.next_id + 1,
          Append(store.vault_items,
                 Vault(store.next_id, cmd.service, cmd.username, cmd.password)))

CmdAdd(p) ==
    /\ proc[p].pc = "dispatch"
    /\ proc[p].cmd.op = "add"
    /\ Set(p, [proc[p] EXCEPT !.pc = "save_encrypt",
                              !.store = AddRecord(proc[p].store, proc[p].cmd)])
    /\ issued' = Append(issued, proc[p].store.next_id)
    /\ UNCHANGED <<dir, inode, synced, runs, last>>

\* vault_items.iter().position(|v| v.id == id): 0 when there is none
Position(items, id) ==
    IF \E i \in 1..Len(items) : items[i].id = id
    THEN CHOOSE i \in 1..Len(items) :
            items[i].id = id /\ \A j \in 1..(i - 1) : items[j].id # id
    ELSE 0

\* removal of the record at pos that keeps the records before pos and drops
\* the one after it
RemoveAtOffByOne(items, pos) ==
    [i \in 1..(Len(items) - 1) |-> IF i <= pos THEN items[i] ELSE items[i + 1]]

\* Vec::remove(pos)
RemoveAt(items, pos) ==
    [i \in 1..(Len(items) - 1) |-> IF i < pos THEN items[i] ELSE items[i + 1]]

\* Commands::Remove
CmdRemove(p) ==
    /\ proc[p].pc = "dispatch"
    /\ proc[p].cmd.op = "remove"
    /\ LET pos == Position(proc[p].store.vault_items, proc[p].cmd.id) IN
       IF pos # 0
       THEN Set(p, [proc[p] EXCEPT !.pc = "save_encrypt",
                        !.store = Store(proc[p].store.next_id,
                                        RemoveAt(proc[p].store.vault_items, pos))])
       ELSE Set(p, [proc[p] EXCEPT !.pc = "exit", !.result = "ok",
                                   !.out = <<"not_found">>])
    /\ UNCHANGED <<dir, inode, synced, runs, issued, last>>

\* a list that goes on to save the collection it printed
CmdListSaves(p) ==
    /\ proc[p].pc = "dispatch"
    /\ proc[p].cmd.op = "list"
    /\ Set(p, [proc[p] EXCEPT !.pc = "save_encrypt",
                              !.out = proc[p].store.vault_items])
    /\ UNCHANGED <<dir, inode, synced, runs, issued, last>>

\* Commands::List
CmdList(p) ==
    /\ proc[p].pc = "dispatch"
    /\ proc[p].cmd.op = "list"
    /\ Set(p, [proc[p] EXCEPT !.pc = "exit", !.result = "ok",
                              !.out = proc[p].store.vault_items])
    /\ UNCHANGED <<dir, inode, synced, runs, issued, last>>

(***************************************************************************)
(* Store::save                                                             *)
(***************************************************************************)
\* encrypt_store(self, master) and serde_json::to_vec_pretty(&enc)
SaveEncrypt(p) ==
    /\ proc[p].pc = "save_encrypt"
    /\ \E salt \in Salts :
          LET enc == EncryptStore(proc[p].store, proc[p].master, salt) IN
          IF enc.ok
          THEN Set(p, [proc[p] EXCEPT !.pc = "save_create",
                                      !.json = SerEncryptedFile(enc.val)])
          ELSE Set(p, [proc[p] EXCEPT !.pc = "exit", !.result = "err"])
    /\ UNCHANGED <<dir, inode, synced, runs, issued, last>>

\* File::create(&tmp): a new file, or the existing one truncated
SaveCreate(p) ==
    /\ proc[p].pc = "save_create"
    /\ LET ino == IF dir[TmpPath] # NoInode THEN dir[TmpPath] ELSE FreeInode IN
       /\ dir' = [dir EXCEPT ![TmpPath] = ino]
       /\ inode' = [inode EXCEPT ![ino] = <<>>]
       /\ synced' = [synced EXCEPT ![ino] = 0]
       /\ Set(p, [proc[p] EXCEPT !.pc = "save_write", !.wfd = ino, !.off = 0])
    /\ UNCHANGED <<runs, issued, last>>

\* File::create(&tmp)? fails
SaveCreateFail(p) ==
    /\ proc[p].pc = "save_create"
    /\ Set(p, [proc[p] EXCEPT !.pc = "exit", !.result = "err", !.ioerr = "create"])
    /\ UNCHANGED <<dir, inode, synced, runs, issued, last>>

\* f.write_all(&json): one write(2) of the loop, of any length the kernel takes
SaveWrite(p) ==
    /\ proc[p].pc = "save_write"
    /\ \E k \in 1..(Len(proc[p].json) - proc[p].off) :
          LET data == SubSeq(proc[p].json, proc[p].off + 1, proc[p].off + k) IN
          /\ inode' = [inode EXCEPT ![proc[p].wfd] = WriteAt(@, proc[p].off, data)]
          /\ Set(p, [proc[p] EXCEPT
                        !.off = @ + k,
                        !.pc = IF proc[p].off + k = Len(proc[p].json)
                               THEN "save_flush" ELSE "save_write"])
    /\ UNCHANGED <<dir, synced, runs, issued, last>>

\* f.write_all(&json)? fails: the handle is dropped, the temporary file stays
SaveWriteFail(p) ==
    /\ proc[p].pc = "save_write"
    /\ LET np == [proc EXCEPT ![p] = [proc[p] EXCEPT !.pc = "exit", !.result = "err",
                                                     !.ioerr = "write", !.wfd = NoInode]]
       IN /\ proc' = np
          /\ inode' = Collect(dir, np, inode)
          /\ synced' = CollectSynced(dir, np, synced)
    /\ UNCHANGED <<dir, runs, issued, last>>

\* f.flush() of a std::fs::File writes nothing to the device; then f is dropped
SaveFlush(p) ==
    /\ proc[p].pc = "save_flush"
    /\ LET np == [proc EXCEPT ![p] = [proc[p] EXCEPT !.pc = "save_rename",
                                                     !.wfd = NoInode]]
       IN /\ proc' = np
          /\ inode' = Collect(dir, np, inode)
          /\ synced' = CollectSynced(dir, np, synced)
    /\ UNCHANGED <<dir, runs, issued, last>>

\* fs::rename(tmp, path)?: fails when the temporary path is gone
SaveRename(p) ==
    /\ proc[p].pc = "save_rename"
    /\ IF dir[TmpPath] # NoInode
       THEN LET nd == [n \in Paths |-> IF n = DbPath THEN dir[TmpPath] ELSE NoInode]
                np == [proc EXCEPT ![p] = [proc[p] EXCEPT !.pc = "exit", !.result = "ok"]]
            IN /\ dir' = nd
               /\ proc' = np
               /\ inode' = Collect(nd, np, inode)
               /\ synced' = CollectSynced(nd, np, synced)
       ELSE /\ Set(p, [proc[p] EXCEPT !.pc = "exit", !.result = "err",
                                        !.ioerr = "rename"])
            /\ UNCHANGED <<dir, inode, synced>>
    /\ UNCHANGED <<runs, issued, last>>

\* fs::rename(tmp, path)? fails for another reason
SaveRenameFail(p) ==
    /\ proc[p].pc = "save_rename"
    /\ Set(p, [proc[p] EXCEPT !.pc = "exit", !.result = "err", !.ioerr = "rename"])
    /\ UNCHANGED <<dir, inode, synced, runs, issued, last>>

\* main returns: Ok(()) or the error of save
Exit(p) ==
    /\ proc[p].pc = "exit"
    /\ Set(p, Idle)
    /\ last' = proc[p].result
    /\ UNCHANGED <<dir, inode, synced, runs, issued>>

(***************************************************************************)
(* The environment: a killed process, a power failure                      *)
(***************************************************************************)
\* the process dies; its handles are closed, the files stay as they are
Crash(p) ==
    /\ proc[p].pc # "idle"
    /\ LET np == [proc EXCEPT ![p] = Idle]
       IN /\ proc' = np
          /\ inode' = Collect(dir, np, inode)
          /\ synced' = CollectSynced(dir, np, synced)
    /\ last' = "crash"
    /\ UNCHANGED <<dir, runs, issued>>

\* the machine loses power: every process dies, and of each file the bytes
\* that were never synced survive only as far as the kernel had written them
Survives(i) == synced[i]..Len(inode[i])

PowerLoss ==
    /\ last # "power"
    /\ \E k1 \in Survives("i1"), k2 \in Survives("i2"),
          k3 \in Survives("i3"), k4 \in Survives("i4") :
          LET keep == [i \in Inodes |-> CASE i = "i1" -> k1 [] i = "i2" -> k2
                                           [] i = "i3" -> k3 [] OTHER -> k4]
              np == [p \in Procs |-> Idle]
              ni == Collect(dir, np, [i \in Inodes |-> SubSeq(inode[i], 1, keep[i])])
          IN /\ proc' = np
             /\ inode' = ni
             /\ synced' = [i \in Inodes |-> Len(ni[i])]
    /\ last' = "power"
    /\ UNCHANGED <<dir, runs, issued>>

(***************************************************************************)
(* Specifications                                                          *)
(***************************************************************************)
\* the steps of one invocation when nothing fails underneath it
Run(p, masters, limit) ==
    \/ Start(p, masters, limit)
    \/ LoadExists(p)
    \/ LoadOpen(p)
    \/ LoadContainer(p)
    \/ LoadReopen(p)
    \/ LoadBare(p)
    \/ CmdAdd(p)
    \/ CmdRemove(p)
    \/ CmdList(p)
    \/ SaveEncrypt(p)
    \/ SaveCreate(p)
    \/ SaveWrite(p)
    \/ SaveFlush(p)
    \/ SaveRename(p)
    \/ Exit(p)

\* an I/O error or a kill at any step
Fault(p) ==
    \/ LoadOpenFail(p)
    \/ LoadReopenFail(p)
    \/ SaveCreateFail(p)
    \/ SaveWriteFail(p)
    \/ SaveRenameFail(p)
    \/ Crash(p)

\* one invocation at a time, any file, any passphrase
Next == Run("p1", Passphrases, MaxRuns)
Spec == Init /\ [][Next]_vars

\* one invocation at a time, with I/O errors and kills
InitFault ==
    InitFs({SealedFile(StoreOne, PassA, SaltBytes("s1")), SerStore(StoreTwo), <<Junk>>}, TRUE)
NextFault == Run("p1", {PassA}, MaxRuns) \/ Fault("p1")
SpecFault == InitFault /\ [][NextFault]_vars

\* first use: no file or an empty one, the same passphrase every time, nothing fails
InitFresh == InitFs({<<>>}, TRUE)
NextFresh == Run("p1", {PassA}, MaxFreshRuns)
SpecFresh == InitFresh /\ [][NextFresh]_vars

\* one invocation at a time on a machine that can lose power
InitPower == InitFs(ContainerFiles \cup LegacyFiles, TRUE)
NextPower == Run("p1", {PassA}, MaxRuns) \/ PowerLoss
SpecPower == InitPower /\ [][NextPower]_vars

\* two invocations at the same time on the same path, no lock
InitConc == InitFs({SealedFile(StoreOne, PassA, SaltBytes("s1")), SerStore(StoreOne)}, TRUE)
NextConc == \E p \in Procs : Run(p, {PassA}, MaxRuns)
SpecConc == InitConc /\ [][NextConc]_vars

\* save then load of one collection: Store::save of any collection under any
\* non-empty passphrase, then Store::load of the same path with it
RtIds == {1, 2}
RtNextIds == {0, 1, 3}
RtRecords == {Vault(i, s, "alice", "p@ss1") : i \in RtIds, s \in Services}
RtStores ==
    {Store(n, items) : n \in RtNextIds,
                       items \in UNION {[1..k -> RtRecords] : k \in 0..MaxItems}}

InitRT ==
    /\ InitDisk({SerStore(StoreOne)}, TRUE)
    /\ \E st \in RtStores, m \in {PassA, PassB} :
          proc = [p \in Procs |->
                     IF p = "p1"
                     THEN [Idle EXCEPT !.pc = "save_encrypt", !.store = st, !.master = m]
                     ELSE Idle]
    /\ runs = 0
    /\ issued = <<>>
    /\ last = "none"

\* the saved path is loaded again with the passphrase it was saved with
Reload ==
    /\ proc["p1"].pc = "exit"
    /\ proc["p1"].result = "ok"
    /\ Start("p2", {proc["p1"].master}, 1)

NextRT ==
    \/ SaveEncrypt("p1")
    \/ SaveCreate("p1")
    \/ SaveWrite("p1")
    \/ SaveFlush("p1")
    \/ SaveRename("p1")
    \/ Reload
    \/ LoadExists("p2")
    \/ LoadOpen("p2")
    \/ LoadContainer("p2")
SpecRT == InitRT /\ [][NextRT]_vars

(***************************************************************************)
(* Properties                                                              *)
(***************************************************************************)
\* the bytes are a well-formed container whose blob opens under the passphrase
OpensUnder(bytes, master) ==
    LET enc == ParseEncryptedFile(bytes) IN
    enc.ok /\ DecryptStore(enc.val, master).ok

\* the bytes are a well-formed container, the key can be derived from the
\* passphrase, and aead::open rejects the blob: wrong passphrase or tampering
AuthFails(bytes, master) ==
    LET enc == ParseEncryptedFile(bytes) IN
    /\ enc.ok
    /\ ~DecryptStore(enc.val, master).ok
    /\ DecryptStore(enc.val, master).err = "decryption_failed"

\* Store::load has returned a collection to main
LoadReturned(p) == proc[p].pc = "dispatch"

\* C1: when the file is a well-formed container and the passphrase is not the
\* one it was sealed with (or the blob was tampered with), load does not hand
\* main the empty collection {next_id = 1, no records} it returns for a
\* missing file.
C1_AuthFailureIsSurfaced ==
    \A p \in Procs :
        (LoadReturned(p) /\ proc[p].pre.exists
            /\ AuthFails(proc[p].pre.bytes, proc[p].master))
        => proc[p].store # EmptyStore

\* C2: an invocation run with a passphrase other than the one the file was
\* sealed with cannot complete and leaves the file as it was.
C2_WrongPassphraseKeepsFile ==
    \A p \in Procs :
        (proc[p].pc = "exit" /\ proc[p].pre.exists
            /\ OpensUnder(proc[p].pre.bytes, PassA) /\ proc[p].master = PassB)
        => (PathState = proc[p].pre /\ OpensUnder(PathBytes, PassA))

\* the bytes an invocation hands to the temporary file are the whole container
\* of its collection under its passphrase
CompleteJson(r) ==
    /\ OpensUnder(r.json, r.master)
    /\ DecryptStore(ParseEncryptedFile(r.json).val, r.master).val = r.store

\* the invocation has been through save and its rename succeeded
Renamed(r) == r.pc = "exit" /\ r.result = "ok" /\ r.json # <<>>

\* C3: in Store::save the rename is the only step that changes what the path
\* holds, and it installs the complete new content; a process killed at any
\* step before the rename leaves the pre-save content, one killed after it
\* leaves the complete new content.
C3_RenameIsTheOnlyMutation ==
    [][ /\ (PathState' # PathState) =>
              \E p \in Procs :
                 /\ proc[p].pc = "save_rename"
                 /\ Renamed(proc'[p])
                 /\ CompleteJson(proc[p])
                 /\ PathState' = [exists |-> TRUE, bytes |-> proc[p].json]
        /\ \A p \in Procs :
              (last' = "crash" /\ proc[p].pc # "idle" /\ proc'[p].pc = "idle") =>
                 IF Renamed(proc[p])
                 THEN PathState' = [exists |-> TRUE, bytes |-> proc[p].json]
                 ELSE PathState' = proc[p].pre
      ]_vars

\* a process was killed part-way through writing the temporary file, and the
\* path still holds the container it held before
C3_Witness ==
    /\ last = "crash"
    /\ TmpExists /\ Len(TmpBytes) \in 1..5
    /\ PathExists /\ OpensUnder(PathBytes, PassA)

\* the bytes are a whole file: a complete container that opens under the
\* passphrase in use, or a complete legacy collection
WholeFile(bytes) == OpensUnder(bytes, PassA) \/ ParseStore(bytes).ok

\* C4: with invocations running load-modify-save concurrently on the same
\* path, every read of the path returns a complete file: the content before
\* the saves or the complete output of one save, never a truncated, partly
\* written or mixed file.
C4_ReadersSeeCompleteFile == PathExists => WholeFile(PathBytes)

\* the collection the file at the path holds under the passphrase
StoredUnder(master) == DecryptStore(ParseEncryptedFile(PathBytes).val, master).val

IdsOf(items) == {items[i].id : i \in 1..Len(items)}
DistinctIds(items) == Cardinality(IdsOf(items)) = Len(items)
SeqMax(seq) == CHOOSE m \in {seq[i] : i \in 1..Len(seq)} : \A j \in 1..Len(seq) : seq[j] <= m

\* C5: from an absent (or empty) file, over any sequence of add and remove
\* invocations under one passphrase with every save succeeding, the stored
\* next_id is one plus the largest id ever issued, no two records share an
\* id, and an id is never issued twice, also after its record was removed.
C5_IdsNeverReused ==
    /\ \A i \in 1..Len(issued) : \A j \in 1..Len(issued) : i < j => issued[i] < issued[j]
    /\ \A p \in Procs : DistinctIds(proc[p].store.vault_items)
    /\ (\A p \in Procs : proc[p].pc \in {"idle", "exit"}) =>
          IF issued = <<>>
          THEN PathBytes = <<>>
          ELSE /\ OpensUnder(PathBytes, PassA)
               /\ StoredUnder(PassA).next_id = SeqMax(issued) + 1
               /\ DistinctIds(StoredUnder(PassA).vault_items)
               /\ IdsOf(StoredUnder(PassA).vault_items) \subseteq
                     {issued[i] : i \in 1..Len(issued)}

\* add, add, remove(1), add: the third record got id 3 and id 1 is gone
C5_Witness ==
    /\ issued = <<1, 2, 3>>
    /\ proc["p1"].pc = "idle"
    /\ OpensUnder(PathBytes, PassA)
    /\ IdsOf(StoredUnder(PassA).vault_items) = {2, 3}
    /\ StoredUnder(PassA).next_id = 4

\* C6: round trip: for every collection (any next_id, any sequence of
\* records) and every non-empty passphrase, Store::save followed by
\* Store::load of the same path with the same passphrase returns the
\* collection field for field, records in the same order.
C6_RoundTrip ==
    LoadReturned("p2") =>
        /\ proc["p2"].via = "container"
        /\ proc["p2"].store.next_id = proc["p1"].store.next_id
        /\ Len(proc["p2"].store.vault_items) = Len(proc["p1"].store.vault_items)
        /\ \A i \in 1..Len(proc["p1"].store.vault_items) :
              /\ proc["p2"].store.vault_items[i].id = proc["p1"].store.vault_items[i].id
              /\ proc["p2"].store.vault_items[i].service
                    = proc["p1"].store.vault_items[i].service
              /\ proc["p2"].store.vault_items[i].username
                    = proc["p1"].store.vault_items[i].username
              /\ proc["p2"].store.vault_items[i].password
                    = proc["p1"].store.vault_items[i].password

\* a collection with two records of the same id, out of id order, and a
\* next_id below them has been saved and loaded back
C6_Witness ==
    /\ LoadReturned("p2")
    /\ proc["p1"].store = Store(0, <<Vault(2, "gitlab", "alice", "p@ss1"),
                                     Vault(2, "github", "alice", "p@ss1")>>)
    /\ proc["p2"].store = proc["p1"].store
    /\ proc["p2"].master = PassB

\* C7: the bytes of the temporary file are on durable storage before the
\* rename, so a power failure after the rename leaves the path holding the
\* complete new content, never an empty or truncated file.
C7_PowerLossKeepsWholeFile ==
    (last = "power" /\ PathExists) => WholeFile(PathBytes)

\* C8: a save performed with no passphrase writes the bare
\* {next_id, vault_items} structure of the collection to the path.
C8_NoPassphraseWritesBare ==
    \A p \in Procs :
        (proc[p].pc = "exit" /\ proc[p].master = NoPass /\ proc[p].cmd.op = "add")
        => (PathExists /\ PathBytes = SerStore(proc[p].store))

\* C9: when the file holds a valid bare-format collection, Store::load
\* returns exactly that collection whatever passphrase is supplied, none
\* included, and list shows its records unchanged.
C9_LegacyFileLoads ==
    \A p \in Procs : \A st \in LegacyStores :
        (proc[p].pre.exists /\ proc[p].pre.bytes = SerStore(st)) =>
            /\ LoadReturned(p) => (proc[p].store = st /\ proc[p].via = "bare")
            /\ (proc[p].pc = "exit" /\ proc[p].cmd.op = "list")
                  => proc[p].out = st.vault_items

\* list of a two-record legacy file, run with a passphrase, has printed both
C9_Witness ==
    /\ proc["p1"].pc = "exit"
    /\ proc["p1"].cmd.op = "list"
    /\ proc["p1"].master = PassB
    /\ proc["p1"].pre.bytes = SerStore(StoreTwo)
    /\ proc["p1"].out = <<Rec1, Rec2>>

\* C10: every I/O failure (open in load; create, write, rename in save) ends
\* the invocation with an error and leaves the path as it was before the
\* invocation.
C10_IoFailureAborts ==
    \A p \in Procs :
        (proc[p].pc = "exit" /\ proc[p].ioerr # "none")
        => (proc[p].result = "err" /\ PathState = proc[p].pre)

\* the bytes are a well-formed container and the key cannot be derived: the
\* passphrase is one Password::from_slice rejects, or the embedded cost
\* parameters are ones kdf::derive_key rejects
DerivationFails(bytes, master) ==
    LET enc == ParseEncryptedFile(bytes) IN
    /\ enc.ok
    /\ ~DecryptStore(enc.val, master).ok
    /\ DecryptStore(enc.val, master).err \in {"password", "derive_key"}

\* C11: a key-derivation failure during the load of a well-formed container
\* is fatal: load does not recover from it by handing main the empty default
\* collection.
C11_DerivationFailureIsFatal ==
    \A p \in Procs :
        (proc[p].pre.exists /\ DerivationFails(proc[p].pre.bytes, proc[p].master))
        => ~(LoadReturned(p) /\ proc[p].store = Store(1, <<>>))

\* the collection an add was applied to: the saved one without the record the
\* add pushed and with the next_id it found
LoadedByAdd(r) ==
    Store(r.store.next_id - 1,
          SubSeq(r.store.vault_items, 1, Len(r.store.vault_items) - 1))

\* both invocations are adds that have ended and that loaded the same content
BothAddsEnded ==
    /\ proc["p1"].pc = "exit" /\ proc["p2"].pc = "exit"
    /\ proc["p1"].cmd.op = "add" /\ proc["p2"].cmd.op = "add"
    /\ proc["p1"].pre = proc["p2"].pre
    /\ LoadedByAdd(proc["p1"]) = LoadedByAdd(proc["p2"])

\* C12: two concurrent adds that loaded the same content both save with
\* success, and once both have ended the path holds the complete
\* serialization one of them produced (the one that renamed last) and no
\* temporary file is left behind.
C12_LastRenameWins ==
    BothAddsEnded =>
        /\ proc["p1"].result = "ok" /\ proc["p2"].result = "ok"
        /\ PathExists
        /\ PathBytes \in {proc["p1"].json, proc["p2"].json}
        /\ ~TmpExists

\* the invariant of a collection: next_id above every record's id, ids distinct
WellFormedStore(store) ==
    /\ \A i \in 1..Len(store.vault_items) : store.vault_items[i].id < store.next_id
    /\ DistinctIds(store.vault_items)

\* C13: every collection Store::load returns, from a decrypted container or
\* from a legacy bare file, has next_id above the id of every record and no
\* two records with one id, so the record the next add pushes gets an id no
\* existing record has.
C13_LoadedStoreIsWellFormed ==
    \A p \in Procs :
        /\ LoadReturned(p) => WellFormedStore(proc[p].store)
        /\ (proc[p].pc = "save_encrypt" /\ proc[p].cmd.op = "add")
              => DistinctIds(proc[p].store.vault_items)

\* the records of items without the first one whose id is id, in their order
WithoutFirst(items, id) ==
    LET k == CHOOSE n \in 1..Len(items) :
                 /\ items[n].id = id
                 /\ \A j \in 1..(n - 1) : items[j].id # id
    IN SubSeq(items, 1, k - 1) \o SubSeq(items, k + 1, Len(items))

SavePcs == {"save_encrypt", "save_create", "save_write", "save_flush", "save_rename"}

FirstUse(r) == ~r.pre.exists \/ r.pre.bytes = <<>>

\* C15: when the path does not exist or the file is empty, Store::load returns
\* the collection with next_id 1 and no records and creates or modifies no
\* file, and the first add on it issues id 1.
C15_FirstUseStartsEmpty ==
    \A p \in Procs :
        FirstUse(proc[p]) =>
            /\ LoadReturned(p) =>
                  /\ proc[p].store = Store(1, <<>>)
                  /\ PathState = proc[p].pre
                  /\ ~TmpExists
            /\ (proc[p].pc = "save_encrypt" /\ proc[p].cmd.op = "add") =>
                  /\ proc[p].store.next_id = 2
                  /\ Len(proc[p].store.vault_items) = 1
                  /\ proc[p].store.vault_items[1].id = 1

\* the first add on an empty file has pushed its record
C15_Witness ==
    /\ proc["p1"].pc = "save_encrypt"
    /\ proc["p1"].cmd.op = "add"
    /\ proc["p1"].pre = [exists |-> TRUE, bytes |-> <<>>]
    /\ proc["p1"].store.vault_items[1].id = 1
    /\ runs = 1

\* the bytes are neither a container nor a bare-format collection
Malformed(bytes) == ~ParseEncryptedFile(bytes).ok /\ ~ParseStore(bytes).ok

\* C16: a file that is neither a well-formed container nor a bare-format
\* collection loads as the empty default collection, and load returns its
\* empty default on that path and on the first-use path only: never as the
\* result of a decryption failure.
C16_DefaultOnlyForMalformedOrFirstUse ==
    \A p \in Procs :
        LoadReturned(p) =>
            /\ (proc[p].pre.exists /\ Malformed(proc[p].pre.bytes))
                  => proc[p].store = Store(1, <<>>)
            /\ proc[p].via \notin {"container", "bare"}
                  => (FirstUse(proc[p]) \/ Malformed(proc[p].pre.bytes))

(***************************************************************************)
(* Containers sealed with other cost parameters                            *)
(***************************************************************************)
\* <<kdf_iterations, kdf_memory_kib>> pairs kdf::derive_key accepts: the
\* defaults of encrypt_store, and others
CostParameters == {<<3, 65536>>, <<4, 1024>>, <<3, 8>>, <<5, 65536>>}

\* the container encrypt_store writes when its two cost constants are cost
SealedWith(store, master, salt, cost) ==
    SerEncryptedFile(
        EncryptedFile(B64Encode(salt), cost[1], cost[2],
                      B64Encode(Seal(DeriveKey(master, salt, cost[1], cost[2]).val,
                                     SerStore(store)))))

CostFiles == {SealedWith(StoreTwo, PassA, SaltBytes("s1"), cost) : cost \in CostParameters}

InitCost == InitFs(CostFiles \cup {SerStore(StoreOne)}, FALSE)
NextCost == Run("p1", {PassA, PassB}, MaxRuns)
SpecCost == InitCost /\ [][NextCost]_vars

\* the blob of the container was sealed under the key that master, the stored
\* salt and the stored cost parameters derive
SealedUnderStored(enc, master) ==
    LET salt == B64Decode(enc.salt_b64)
        blob == B64Decode(enc.blob_b64) IN
    /\ salt.ok /\ blob.ok /\ blob.val.intact
    /\ DeriveKey(master, salt.val, enc.kdf_iterations, enc.kdf_memory_kib).ok
    /\ blob.val.key = <<master, salt.val, enc.kdf_iterations, enc.kdf_memory_kib>>

\* C18: load derives the key from the kdf_iterations and kdf_memory_kib stored
\* in the file, not from the defaults of save: a container sealed with any
\* supported cost parameters loads to its collection under the right
\* passphrase; and the two values save writes into a container are the ones
\* the key of its blob was derived with.
C18_CostParametersRoundTrip ==
    \A p \in Procs :
        LET r == proc[p]
            old == ParseEncryptedFile(r.pre.bytes)
            new == ParseEncryptedFile(r.json) IN
        /\ (LoadReturned(p) /\ r.pre.exists /\ old.ok
               /\ SealedUnderStored(old.val, r.master))
              => /\ r.via = "container"
                 /\ Ok(r.store) = ParseStore(B64Decode(old.val.blob_b64).val.pt)
        /\ r.json # <<>>
              => /\ new.ok
                 /\ B64Decode(new.val.blob_b64).val.key[3] = new.val.kdf_iterations
                 /\ B64Decode(new.val.blob_b64).val.key[4] = new.val.kdf_memory_kib

\* a container sealed with 4 iterations and 1024 KiB has been loaded
C18_Witness ==
    /\ LoadReturned("p1")
    /\ proc["p1"].master = PassA
    /\ proc["p1"].pre.bytes = SealedWith(StoreTwo, PassA, SaltBytes("s1"), <<4, 1024>>)
    /\ proc["p1"].store = StoreTwo

(***************************************************************************)
(* A temporary file left by an earlier, killed save                        *)
(***************************************************************************)
\* what a save killed while writing left at db.json.tmp
StaleTmp == SubSeq(SealedFile(StoreOne, PassA, SaltBytes("s1")), 1, 2)

StaleFiles ==
    {SealedFile(StoreTwo, PassA, SaltBytes("s1")), SerStore(StoreTwo), <<Junk>>}

InitStale ==
    /\ \/ dir = [n \in Paths |-> IF n = TmpPath THEN "i2" ELSE NoInode]
       \/ dir = [n \in Paths |-> IF n = TmpPath THEN "i2" ELSE "i1"]
    /\ \E f \in StaleFiles :
          inode = [i \in Inodes |-> IF i = "i1" /\ dir[DbPath] = "i1" THEN f
                                    ELSE IF i = "i2" THEN StaleTmp ELSE <<>>]
    /\ synced = [i \in Inodes |-> Len(inode[i])]
    /\ proc = [p \in Procs |-> Idle]
    /\ runs = 0
    /\ issued = <<>>
    /\ last = "none"
NextStale == Run("p1", Passphrases, MaxRuns)
SpecStale == InitStale /\ [][NextStale]_vars

\* the invocation is a list, or a remove that found no record with its id (at
\* dispatch with the loaded collection, or ended without having serialized)
ReadOnly(r) ==
    \/ r.cmd.op = "list"
    \/ /\ r.cmd.op = "remove"
       /\ r.pc = "dispatch"
       /\ r.cmd.id \notin IdsOf(r.store.vault_items)
    \/ /\ r.cmd.op = "remove"
       /\ r.pc = "exit"
       /\ r.out = <<"not_found">>

\* C19: a list invocation, and a remove invocation whose id matches no
\* record, never call save: no step of theirs changes the directory or the
\* bytes of any file, so the file at the path and the temporary file are after
\* the invocation what they were before it, for every file content and every
\* passphrase.
C19_ReadOnlyLeavesFilesAlone ==
    [][\A p \in Procs :
          (proc[p].pc # "idle" /\ ReadOnly(proc[p]))
          => /\ dir' = dir
             /\ inode' = inode
             /\ proc'[p].pc \notin SavePcs]_vars

\* a remove that matched nothing has ended under the wrong passphrase, the
\* container and the stale temporary file still in place
C19_Witness ==
    /\ proc["p1"].pc = "exit"
    /\ proc["p1"].cmd.op = "remove"
    /\ proc["p1"].out = <<"not_found">>
    /\ proc["p1"].master = PassB
    /\ proc["p1"].pre.exists
    /\ PathState = proc["p1"].pre
    /\ TmpExists /\ TmpBytes = StaleTmp

\* the field names of the JSON text, in order
FieldNames(bytes) == [i \in 1..Len(bytes) |-> bytes[i].name]

\* C20: after every successful save the file at the path is an encrypted
\* container (salt_b64, kdf_iterations, kdf_memory_kib, blob_b64) whose blob
\* opens under the passphrase of the invocation to the in-memory collection;
\* a legacy bare-format file is thereby replaced by a container on the first
\* add or matching remove, and no record appears in clear in the file.
C20_SavedFileIsSealedContainer ==
    \A p \in Procs :
        Renamed(proc[p]) =>
            /\ PathExists
            /\ FieldNames(PathBytes) =
                  <<"{", "salt_b64", "kdf_iterations", "kdf_memory_kib", "blob_b64", "}">>
            /\ ParseEncryptedFile(PathBytes).ok
            /\ DecryptStore(ParseEncryptedFile(PathBytes).val, proc[p].master)
                  = Ok(proc[p].store)
            /\ ~ParseStore(PathBytes).ok
            /\ \A i \in 1..Len(PathBytes) :
                  PathBytes[i].name \notin {"item", "next_id", "vault_items"}

\* a matching remove on a legacy file has replaced it by a container
C20_Witness ==
    /\ Renamed(proc["p1"])
    /\ proc["p1"].cmd = RemoveCommand(2)
    /\ proc["p1"].pre.bytes = SerStore(StoreTwo)
    /\ ParseEncryptedFile(PathBytes).ok
    /\ StoredUnder(proc["p1"].master) = Store(3, <<Rec1>>)

====
